---- MODULE Spec2Model ----
(***************************************************************************)
(* The test DNS server of boulder (package main, "dns-srv"): the HTTP      *)
(* control endpoint setTXT, the DNS handler dnsHandler and the /etc/hosts  *)
(* resolver (lookupStaticIP, allHosts, loadHosts, readHosts), together     *)
(* with the FAKE_DNS default of test/run-docker.sh.                        *)
(*                                                                         *)
(* Strings the code computes on (host names, the hosts file, FAKE_DNS) are *)
(* sequences of one-character strings, so that ToLower, TrimRight,         *)
(* TrimSpace, ReadString, Split and ParseIP are computed, not assumed.     *)
(***************************************************************************)
EXTENDS Integers, Sequences, FiniteSets, TLC

VARIABLES
    shellFakeDNS,   \* FAKE_DNS in the environment of whoever starts the server
    launcher,       \* "direct" (the binary is started as is) or "run-docker"
    envFakeDNS,     \* FAKE_DNS as os.Getenv sees it inside the server process
    fileExists,     \* whether /etc/hosts exists
    versions,       \* every content /etc/hosts has had; the current one is the last,
                    \* and the modification time of version i is i
    hosts,          \* the package variable hosts (NilMap until first loaded)
    hostsTime,      \* the package variable hostsTime (0 is the zero time.Time)
    txtRecords,     \* ts.txtRecords
    mu,             \* ts.mu: [w |-> the writer holding it or None, r |-> the readers holding it]
    http,           \* per HTTP goroutine: position and locals of setTXT
    dns,            \* per DNS goroutine: position and locals of dnsHandler
    crashed,        \* an unrecovered panic has ended the process
    pubLog,         \* history: the <<host, value>> of every write of line 141, in order
    nRequests,      \* HTTP requests started so far
    nQueries        \* DNS messages started so far

vars == <<shellFakeDNS, launcher, envFakeDNS, fileExists, versions, hosts, hostsTime,
          txtRecords, mu, http, dns, crashed, pubLog, nRequests, nQueries>>

----------------------------------------------------------------------------
(* Bounds of the model. *)

MaxRequests == 2   \* HTTP requests per run
MaxQueries == 2    \* DNS messages per run
MaxVersions == 2   \* contents /etc/hosts gets per run

----------------------------------------------------------------------------
(* Values. *)

Nil == "nil"       \* a nil error
None == "none"     \* nobody / not yet assigned
NilIP == <<>>      \* a nil net.IP
NilMap == [ok |-> FALSE]                  \* a nil map[string][]net.IP
SomeMap(f) == [ok |-> TRUE, map |-> f]    \* a map that is not nil

\* The goroutines that can be serving at the same time. Goroutines have no
\* identity: a new request or message takes the first slot that is free.
HttpSlots == <<"h1", "h2">>
DnsSlots == <<"d1", "d2">>
HttpProcs == {HttpSlots[i] : i \in 1..Len(HttpSlots)}
DnsProcs == {DnsSlots[i] : i \in 1..Len(DnsSlots)}

NL == "\n"
TAB == "\t"
Space == {" ", TAB, NL}

\* The letters the names of the model use in both cases.
UpperOf == [c \in {"a", "t"} |-> IF c = "a" THEN "A" ELSE "T"]

\* strings.ToLower on one character.
LowerChar(c) ==
    IF \E l \in DOMAIN UpperOf : UpperOf[l] = c
    THEN CHOOSE l \in DOMAIN UpperOf : UpperOf[l] = c
    ELSE c

\* strings.ToLower (line 141).
ToLower(s) == [i \in 1..Len(s) |-> LowerChar(s[i])]

\* strings.TrimRight(s, ".") (line 171): every trailing dot is removed.
RECURSIVE TrimRightDots(_)
TrimRightDots(s) ==
    IF s # <<>> /\ s[Len(s)] = "." THEN TrimRightDots(SubSeq(s, 1, Len(s) - 1)) ELSE s

\* strings.TrimSpace (line 337).
RECURSIVE TrimLeftSpace(_)
TrimLeftSpace(s) ==
    IF s # <<>> /\ s[1] \in Space THEN TrimLeftSpace(Tail(s)) ELSE s

RECURSIVE TrimRightSpace(_)
TrimRightSpace(s) ==
    IF s # <<>> /\ s[Len(s)] \in Space THEN TrimRightSpace(SubSeq(s, 1, Len(s) - 1)) ELSE s

TrimSpace(s) == TrimRightSpace(TrimLeftSpace(s))

\* Index of the first element of s in set cs, 0 when there is none.
RECURSIVE IndexIn(_, _, _)
IndexIn(s, cs, i) ==
    IF i > Len(s) THEN 0 ELSE IF s[i] \in cs THEN i ELSE IndexIn(s, cs, i + 1)

\* hostsFieldRE.Split(l, -1) with hostsFieldRE = \s+ (lines 312, 342): the
\* fields between maximal runs of white space; a leading or trailing run
\* yields an empty field, as regexp.Split does.
RECURSIVE SplitFields(_)
SplitFields(l) ==
    LET i == IndexIn(l, Space, 1) IN
    IF i = 0 THEN <<l>>
    ELSE <<SubSeq(l, 1, i - 1)>> \o SplitFields(TrimLeftSpace(SubSeq(l, i, Len(l))))

\* Splitting on one character, for ParseIP.
RECURSIVE SplitOn(_, _)
SplitOn(s, c) ==
    LET i == IndexIn(s, {c}, 1) IN
    IF i = 0 THEN <<s>>
    ELSE <<SubSeq(s, 1, i - 1)>> \o SplitOn(SubSeq(s, i + 1, Len(s)), c)

DigitVal == [c \in {"0", "1", "2", "3", "4", "5", "6", "7", "8", "9"} |->
                CASE c = "0" -> 0 [] c = "1" -> 1 [] c = "2" -> 2 [] c = "3" -> 3
                  [] c = "4" -> 4 [] c = "5" -> 5 [] c = "6" -> 6 [] c = "7" -> 7
                  [] c = "8" -> 8 [] c = "9" -> 9]

RECURSIVE DecVal(_)
DecVal(s) == IF s = <<>> THEN 0 ELSE 10 * DecVal(SubSeq(s, 1, Len(s) - 1)) + DigitVal[s[Len(s)]]

\* One field of a dotted quad: 1 to 3 decimal digits, at most 255.
IsOctet(s) ==
    /\ Len(s) \in 1..3
    /\ \A i \in 1..Len(s) : s[i] \in DOMAIN DigitVal
    /\ DecVal(s) <= 255

\* net.ParseIP (lines 178, 343) on the IPv4 texts of the model: the address
\* (kept as its text) for a dotted quad, nil for anything else.
ParseIP(s) ==
    LET parts == SplitOn(s, ".") IN
    IF Len(parts) = 4 /\ \A i \in 1..4 : IsOctet(parts[i]) THEN s ELSE NilIP

\* Reading a Go map: the zero value for a missing key.
MapGet(m, k, zero) == IF k \in DOMAIN m THEN m[k] ELSE zero

\* m[k] = v on a Go map.
MapSet(m, k, v) == [x \in DOMAIN m \cup {k} |-> IF x = k THEN v ELSE m[x]]

EmptyMap == [x \in {} |-> Nil]

\* Lines 337-349 as they would be if line 348 put the address in front.
AddLinePrepend(ret, line) ==
    LET l == TrimSpace(line)
        fs == SplitFields(l)
        addr == ParseIP(fs[1])
        names == Tail(fs)
        Add[i \in 0..Len(names)] ==
            IF i = 0 THEN ret
            ELSE MapSet(Add[i - 1], names[i], <<addr>> \o MapGet(Add[i - 1], names[i], <<>>))
    IN  IF l = <<>> \/ l[1] = "#" THEN ret
        ELSE IF addr = NilIP THEN ret
        ELSE Add[Len(names)]

\* One line of readHosts (lines 337-349) applied to the table built so far.
AddLine(ret, line) ==
    LET l == TrimSpace(line)
        fs == SplitFields(l)
        addr == ParseIP(fs[1])
        names == Tail(fs)
        Add[i \in 0..Len(names)] ==
            IF i = 0 THEN ret
            ELSE MapSet(Add[i - 1], names[i], Append(MapGet(Add[i - 1], names[i], <<>>), addr))
    IN  IF l = <<>> \/ l[1] = "#" THEN ret
        ELSE IF addr = NilIP THEN ret
        ELSE Add[Len(names)]

\* readHosts (lines 327-352) on a file that is read without error:
\* br.ReadString('\n') gives the text up to and including the next newline;
\* when no newline is left it gives the rest together with io.EOF, and the
\* loop breaks on io.EOF before looking at that rest.
RECURSIVE readHostsFrom(_, _)
readHostsFrom(rest, ret) ==
    LET i == IndexIn(rest, {NL}, 1) IN
    IF i = 0 THEN ret
    ELSE readHostsFrom(SubSeq(rest, i + 1, Len(rest)), AddLine(ret, SubSeq(rest, 1, i)))

readHosts(content) == readHostsFrom(content, EmptyMap)

----------------------------------------------------------------------------
(* The names, addresses and files of the model. *)

NameLower == <<"a", ".", "t", ".">>     \* "a.t."
NameUpper == <<"A", ".", "t", ".">>     \* "A.t."
NameNoDot == <<"a", ".", "t">>          \* "a.t"
NameNone == <<"n", ".", "t", ".">>      \* "n.t.", in no hosts file that is read
BadCAA == <<"b", "a", "d", "-", "c", "a", "a", "-", "r", "e", "s", "e", "r", "v", "e", "d",
            ".", "c", "o", "m", ".">>   \* "bad-caa-reserved.com." (line 211)
GoodCAA == <<"g", "o", "o", "d", "-", "c", "a", "a", "-", "r", "e", "s", "e", "r", "v", "e", "d",
             ".", "c", "o", "m", ".">>  \* "good-caa-reserved.com." (line 211)
MailPrefix == <<"m", "a", "i", "l", ".">>   \* "mail." (line 190)

IP1 == <<"1", ".", "2", ".", "3", ".", "4">>
IP2 == <<"5", ".", "6", ".", "7", ".", "8">>
IP9 == <<"9", ".", "9", ".", "9", ".", "9">>
Localhost == <<"1", "2", "7", ".", "0", ".", "0", ".", "1">>   \* "127.0.0.1" (line 157)
HostsWord == <<"h", "o", "s", "t", "s">>                       \* "hosts" (lines 42, 170)

\* "1.2.3.4 a.t\n"
File1 == IP1 \o <<" ">> \o NameNoDot \o <<NL>>
\* "5.6.7.8 a.t\n"
File2 == IP2 \o <<" ">> \o NameNoDot \o <<NL>>
\* "# x\n\nz a.t\n5.6.7.8\ta.t  A.t\n1.2.3.4 a.t\n9.9.9.9 n.t a.t" (no final newline)
File3 == <<"#", " ", "x", NL, NL, "z", " ">> \o NameNoDot \o <<NL>>
         \o IP2 \o <<TAB>> \o NameNoDot \o <<" ", " ", "A", ".", "t", NL>>
         \o IP1 \o <<" ">> \o NameNoDot \o <<NL>>
         \o IP9 \o <<" ", "n", ".", "t", " ">> \o NameNoDot

FileContents == {File1, File2, File3}

\* The contents /etc/hosts is rewritten with while the server runs.
Rewrites == {File1, File2}

FakeDNSValues == {<<>>, HostsWord, IP9}

\* readHosts on each content /etc/hosts gets, computed once.
ParsedHosts == [c \in FileContents |-> readHosts(c)]

ServerFailure == "SERVFAIL"   \* dns.RcodeServerFailure
Success == "NOERROR"          \* dns.RcodeSuccess, the rcode SetReply leaves

Questions ==
    {[name |-> NameLower, qtype |-> "A"], [name |-> NameNone, qtype |-> "A"],
     [name |-> NameLower, qtype |-> "MX"], [name |-> NameNone, qtype |-> "MX"],
     [name |-> NameLower, qtype |-> "TXT"], [name |-> NameUpper, qtype |-> "TXT"],
     [name |-> BadCAA, qtype |-> "CAA"], [name |-> GoodCAA, qtype |-> "CAA"],
     [name |-> NameLower, qtype |-> "CAA"],
     [name |-> NameLower, qtype |-> "AAAA"]}

\* The DNS messages of the model: one question, or two.
Messages == {<<q>> : q \in Questions} \cup {<<q1, q2>> : q1 \in Questions, q2 \in Questions}

\* The bodies of HTTP requests: one that cannot be read, one that is no JSON,
\* and JSON objects with or without the "host" member.
Garbage == [kind |-> "garbage"]
ReadErr == [kind |-> "readerr"]
JsonBody(obj) == [kind |-> "json", obj |-> obj]
HostValue(h, v) == JsonBody([f \in {"host", "value"} |-> IF f = "host" THEN h ELSE v])
Bodies ==
    {Garbage, ReadErr, JsonBody([f \in {"value"} |-> "v1"]), HostValue(<<>>, "v1"),
     HostValue(NameUpper, "v1"), HostValue(NameLower, "v2"), HostValue(NameNoDot, "v1")}

Requests ==
    {[path |-> "/set-txt", method |-> "POST", body |-> b] : b \in Bodies}
    \cup {[path |-> "/set-txt", method |-> "GET", body |-> HostValue(NameLower, "v1")],
          [path |-> "/other", method |-> "POST", body |-> HostValue(NameLower, "v1")],
          [path |-> "/other", method |-> "GET", body |-> Garbage]}

----------------------------------------------------------------------------
(* Starting the server. *)

\* test/run-docker.sh lines 41-43 and 78: an empty FAKE_DNS becomes "hosts"
\* before it is handed to the container.
RunDocker(v) == IF v = <<>> THEN HostsWord ELSE v

\* req holds the request being served, status the status answered (0: none yet).
IdleHttp == [pc |-> "idle", req |-> <<>>, host |-> <<>>, value |-> "", status |-> 0]

\* msg, qi, m: the message, the index of the question at hand (q) and the
\* reply being built; st, loaded: the locals st and hm of allHosts (st is 0
\* until os.Stat has given a modification time for the question at hand);
\* hm: the local hm of lookupStaticIP, the table allHosts returned; ips, err:
\* what lookupStaticIP returned for the question at hand (err is None before
\* it has returned); value, present: the locals of line 196; reply: what
\* WriteMsg wrote (<<>> before); snap: how many writes ts.txtRecords and
\* /etc/hosts had seen, and whether the file existed, when the message came.
IdleDns == [pc |-> "idle", msg |-> <<>>, qi |-> 0,
            m |-> [rcode |-> Success, answer |-> <<>>, ns |-> <<>>],
            st |-> 0, loaded |-> NilMap, hm |-> NilMap, err |-> None, ips |-> <<>>,
            value |-> "", present |-> FALSE, reply |-> <<>>, snap |-> <<>>]

Init ==
    /\ shellFakeDNS \in FakeDNSValues
    /\ launcher \in {"direct", "run-docker"}
    /\ envFakeDNS = IF launcher = "run-docker" THEN RunDocker(shellFakeDNS) ELSE shellFakeDNS
    /\ fileExists \in BOOLEAN
    /\ versions = IF fileExists THEN <<File1>> ELSE <<>>
    /\ hosts = NilMap
    /\ hostsTime = 0
    /\ txtRecords = EmptyMap
    /\ mu = [w |-> None, r |-> {}]
    /\ http = [h \in HttpProcs |-> IdleHttp]
    /\ dns = [d \in DnsProcs |-> IdleDns]
    /\ crashed = FALSE
    /\ pubLog = <<>>
    /\ nRequests = 0
    /\ nQueries = 0

----------------------------------------------------------------------------
(* The hosts file, changed from outside the process. *)

\* /etc/hosts is written with new content; its modification time advances.
RewriteHosts(c) ==
    /\ ~crashed
    /\ Len(versions) < MaxVersions
    /\ versions' = Append(versions, c)
    /\ fileExists' = TRUE
    /\ UNCHANGED <<shellFakeDNS, launcher, envFakeDNS, hosts, hostsTime, txtRecords, mu,
                   http, dns, crashed, pubLog, nRequests, nQueries>>

\* /etc/hosts is removed.
RemoveHosts ==
    /\ ~crashed
    /\ fileExists
    /\ Len(versions) < MaxVersions
    /\ fileExists' = FALSE
    /\ UNCHANGED <<shellFakeDNS, launcher, envFakeDNS, versions, hosts, hostsTime, txtRecords,
                   mu, http, dns, crashed, pubLog, nRequests, nQueries>>

\* The modification time os.Stat reports, and the content os.Open reads.
ModTime == Len(versions)
Content == versions[Len(versions)]

----------------------------------------------------------------------------
(* ts.mu, a sync.RWMutex. *)

Holds(p) == mu.w = p \/ p \in mu.r

\* p is the first free slot of slots, st giving each slot's position.
FirstFree(slots, st, p) ==
    \E i \in 1..Len(slots) :
        /\ slots[i] = p
        /\ st[p].pc = "idle"
        /\ \A j \in 1..(i - 1) : st[slots[j]].pc # "idle"

----------------------------------------------------------------------------
(* setTXT (lines 116-144). *)

\* json.Unmarshal(msg, &sr) (lines 129-130): an error for text that is no
\* JSON, otherwise the members present, the zero value for those missing.
Unmarshal(body) ==
    IF body.kind = "json"
    THEN [err |-> Nil, host |-> MapGet(body.obj, "host", <<>>), value |-> MapGet(body.obj, "value", "")]
    ELSE [err |-> "syntax", host |-> <<>>, value |-> ""]

\* Lines 117-123 as they would be if the method were tested before the path.
RejectMethodFirst(req) ==
    IF req.method # "POST" THEN 405
    ELSE IF req.path # "/set-txt" THEN 404
    ELSE IF req.body.kind = "readerr" THEN 400
    ELSE IF Unmarshal(req.body).err # Nil THEN 400
    ELSE IF Unmarshal(req.body).host = <<>> THEN 400
    ELSE 0

\* Lines 117-138 as they would be without the test of lines 135-138.
RejectNoHostCheck(req) ==
    IF req.path # "/set-txt" THEN 404
    ELSE IF req.method # "POST" THEN 405
    ELSE IF req.body.kind = "readerr" THEN 400
    ELSE IF Unmarshal(req.body).err # Nil THEN 400
    ELSE 0

\* Lines 117-138: the status setTXT answers with before it takes the lock,
\* 0 when it goes on to line 139.
Reject(req) ==
    IF req.path # "/set-txt" THEN 404
    ELSE IF req.method # "POST" THEN 405
    ELSE IF req.body.kind = "readerr" THEN 400
    ELSE IF Unmarshal(req.body).err # Nil THEN 400
    ELSE IF Unmarshal(req.body).host = <<>> THEN 400
    ELSE 0

\* Line 141 as it would be if a host already present kept its value.
StoreTXTKeepFirst(recs, host, value) ==
    IF ToLower(host) \in DOMAIN recs THEN recs ELSE MapSet(recs, ToLower(host), value)

\* Line 141 as it would be if the write replaced the whole map.
StoreTXTOnly(recs, host, value) == MapSet(EmptyMap, ToLower(host), value)

\* Line 141: ts.txtRecords[strings.ToLower(sr.Host)] = sr.Value.
StoreTXT(recs, host, value) == MapSet(recs, ToLower(host), value)

\* A request arrives; lines 117-138 run on the request alone.
HttpRequest(h, req) ==
    /\ ~crashed
    /\ FirstFree(HttpSlots, http, h)
    /\ nRequests < MaxRequests
    /\ nRequests' = nRequests + 1
    /\ IF Reject(req) # 0
       THEN /\ http' = [http EXCEPT ![h] = [IdleHttp EXCEPT !.pc = "done", !.req = <<req>>,
                                                          !.status = Reject(req)]]
       ELSE /\ http' = [http EXCEPT ![h] = [IdleHttp EXCEPT !.pc = "lock", !.req = <<req>>,
                                                !.host = Unmarshal(req.body).host,
                                                !.value = Unmarshal(req.body).value]]
    /\ UNCHANGED <<shellFakeDNS, launcher, envFakeDNS, fileExists, versions, hosts, hostsTime,
                   txtRecords, mu, dns, crashed, pubLog, nQueries>>

\* Line 139 as it would be if the write lock did not wait for readers.
HttpLockNoWait(h) ==
    /\ ~crashed
    /\ http[h].pc = "lock"
    /\ mu.w = None
    /\ mu' = [mu EXCEPT !.w = h]
    /\ http' = [http EXCEPT ![h].pc = "write"]
    /\ UNCHANGED <<shellFakeDNS, launcher, envFakeDNS, fileExists, versions, hosts, hostsTime,
                   txtRecords, dns, crashed, pubLog, nRequests, nQueries>>

\* Line 139: ts.mu.Lock().
HttpLock(h) ==
    /\ ~crashed
    /\ http[h].pc = "lock"
    /\ mu.w = None /\ mu.r = {}
    /\ mu' = [mu EXCEPT !.w = h]
    /\ http' = [http EXCEPT ![h].pc = "write"]
    /\ UNCHANGED <<shellFakeDNS, launcher, envFakeDNS, fileExists, versions, hosts, hostsTime,
                   txtRecords, dns, crashed, pubLog, nRequests, nQueries>>

\* Line 141 as it would be if a publish also dropped the hosts cache.
HttpWriteResetsHosts(h) ==
    /\ ~crashed
    /\ http[h].pc = "write"
    /\ txtRecords' = StoreTXT(txtRecords, http[h].host, http[h].value)
    /\ pubLog' = Append(pubLog, <<http[h].host, http[h].value>>)
    /\ http' = [http EXCEPT ![h].pc = "log"]
    /\ hosts' = NilMap
    /\ hostsTime' = 0
    /\ UNCHANGED <<shellFakeDNS, launcher, envFakeDNS, fileExists, versions,
                   mu, dns, crashed, nRequests, nQueries>>

\* Line 141.
HttpWrite(h) ==
    /\ ~crashed
    /\ http[h].pc = "write"
    /\ txtRecords' = StoreTXT(txtRecords, http[h].host, http[h].value)
    /\ pubLog' = Append(pubLog, <<http[h].host, http[h].value>>)
    /\ http' = [http EXCEPT ![h].pc = "log"]
    /\ UNCHANGED <<shellFakeDNS, launcher, envFakeDNS, fileExists, versions, hosts, hostsTime,
                   mu, dns, crashed, nRequests, nQueries>>

\* Line 142: fmt.Printf.
HttpLog(h) ==
    /\ ~crashed
    /\ http[h].pc = "log"
    /\ http' = [http EXCEPT ![h].pc = "respond"]
    /\ UNCHANGED <<shellFakeDNS, launcher, envFakeDNS, fileExists, versions, hosts, hostsTime,
                   txtRecords, mu, dns, crashed, pubLog, nRequests, nQueries>>

\* Line 143: w.WriteHeader(http.StatusOK).
HttpRespond(h) ==
    /\ ~crashed
    /\ http[h].pc = "respond"
    /\ http' = [http EXCEPT ![h].pc = "unlock", ![h].status = 200]
    /\ UNCHANGED <<shellFakeDNS, launcher, envFakeDNS, fileExists, versions, hosts, hostsTime,
                   txtRecords, mu, dns, crashed, pubLog, nRequests, nQueries>>

\* Line 140: the deferred ts.mu.Unlock(), run as setTXT returns.
HttpUnlock(h) ==
    /\ ~crashed
    /\ http[h].pc = "unlock"
    /\ mu' = [mu EXCEPT !.w = None]
    /\ http' = [http EXCEPT ![h].pc = "done"]
    /\ UNCHANGED <<shellFakeDNS, launcher, envFakeDNS, fileExists, versions, hosts, hostsTime,
                   txtRecords, dns, crashed, pubLog, nRequests, nQueries>>

\* The goroutine of a finished request ends.
HttpReturn(h) ==
    /\ ~crashed
    /\ http[h].pc = "done"
    /\ http' = [http EXCEPT ![h] = IdleHttp]
    /\ UNCHANGED <<shellFakeDNS, launcher, envFakeDNS, fileExists, versions, hosts, hostsTime,
                   txtRecords, mu, dns, crashed, pubLog, nRequests, nQueries>>

----------------------------------------------------------------------------
(* dnsHandler (lines 146-243) with lookupStaticIP, allHosts and loadHosts. *)

\* Lines 155-158 as they would be if an empty FAKE_DNS meant the hosts file.
fakeDNSDefaultHosts(env) == IF env = <<>> THEN HostsWord ELSE env

\* Lines 155-158: the value dnsHandler works with for FAKE_DNS = env.
fakeDNS(env) == IF env = <<>> THEN Localhost ELSE env

\* Line 178 as it would be if every A question were answered 127.0.0.1.
FakeAddressLocal == [env \in FakeDNSValues |-> Localhost]

\* Line 178, net.ParseIP(fakeDNS), for each FAKE_DNS, computed once.
FakeAddress == [env \in FakeDNSValues |-> ParseIP(fakeDNS(env))]

Hdr(name, rrtype) == [name |-> name, rrtype |-> rrtype, class |-> "IN", ttl |-> 0]

\* Lines 163-169, 176-178.
ARecord(name, ip) == [hdr |-> Hdr(name, "A"), a |-> ip]
\* Lines 183-191 as they would be without the "mail." of line 190.
MXRecordNoPrefix(name) == [hdr |-> Hdr(name, "MX"), mx |-> name, preference |-> 10]

\* Lines 183-191.
MXRecord(name) == [hdr |-> Hdr(name, "MX"), mx |-> MailPrefix \o name, preference |-> 10]
\* Lines 201-208.
TXTRecord(name, value) == [hdr |-> Hdr(name, "TXT"), txt |-> <<value>>]
\* Lines 212-224 as they would be with the two values exchanged.
CAARecordSwapped(name) ==
    [hdr |-> Hdr(name, "CAA"), tag |-> "issue",
     value |-> IF name = BadCAA THEN "happy-hacker-ca.invalid"
               ELSE IF name = GoodCAA THEN "sad-hacker-ca.invalid" ELSE ""]

\* Lines 212-224.
CAARecord(name) ==
    [hdr |-> Hdr(name, "CAA"), tag |-> "issue",
     value |-> IF name = BadCAA THEN "sad-hacker-ca.invalid"
               ELSE IF name = GoodCAA THEN "happy-hacker-ca.invalid" ELSE ""]
\* Lines 230-238.
SOARecord ==
    [hdr |-> Hdr("boulder.invalid.", "SOA"), ns |-> "ns.boulder.invalid.",
     mbox |-> "master.boulder.invalid.", serial |-> 1, refresh |-> 1, retry |-> 1,
     expire |-> 1, minttl |-> 1]

\* The loop of line 159 goes on to its next question.
NextQ(r) == [r EXCEPT !.qi = @ + 1, !.pc = "q"]

\* m.Answer = append(m.Answer, record), then the next question.
AppendAnswer(r, rec) == NextQ([r EXCEPT !.m.answer = Append(@, rec)])

\* Lines 172-175 as they would be if SetRcode emptied the answer section.
LookupErrClearsAnswer(r, e) ==
    NextQ([r EXCEPT !.err = e, !.ips = <<>>, !.m.rcode = ServerFailure, !.m.answer = <<>>,
                    !.loaded = NilMap])

\* Lines 172-175: lookupStaticIP gave an error; SetRcode and continue.
LookupErr(r, e) == NextQ([r EXCEPT !.err = e, !.ips = <<>>, !.m.rcode = ServerFailure,
                                    !.loaded = NilMap])

\* Line 285 after line 171: hm[strings.TrimRight(q.Name, ".")].
LookupIn(hm, name) == MapGet(hm.map, TrimRightDots(name), <<>>)

\* allHosts has returned the table hm, or NilMap together with a "not exist"
\* error. Lines 279-285: lookupStaticIP returns no error and the addresses
\* the table has for the name, none when there is no table. Lines 172-181:
\* record.A = ips[0] panics with "index out of range" on an empty ips, and
\* the panic, which nothing recovers, ends the process; otherwise the record
\* is appended.
Line176(r, hm) ==
    LET q == r.msg[r.qi]
        ips == IF hm = NilMap THEN <<>> ELSE LookupIn(hm, q.name)
        r1 == [r EXCEPT !.hm = hm, !.ips = ips, !.err = Nil, !.loaded = NilMap]
    IN  IF ips = <<>> THEN [r1 EXCEPT !.pc = "panic"]
        ELSE AppendAnswer(r1, ARecord(q.name, ips[1]))

\* Lines 279-280 as they would be if "not exist" were returned like any
\* other error.
NotExistAsError(r) == LookupErr(r, "ENOENT")

\* Lines 279-280 as they would be if a missing file fell back on the cache.
NotExistUsesCache(r) == Line176(r, hosts)

\* Lines 279-280: os.IsNotExist(err), from os.Stat or os.Open, makes
\* lookupStaticIP return (nil, nil); dnsHandler goes on at line 176.
NotExist(r) == Line176(r, NilMap)

\* Line 297 as it would be if the cache were never reused.
NeedsLoadAlways(h, ht, st) == TRUE

\* Line 297 as it would be without the comparison of modification times.
NeedsLoadOnlyNil(h, ht, st) == h = NilMap

\* Line 297: hosts == nil || hostsTime.Before(st.ModTime()).
NeedsLoad(h, ht, st) == h = NilMap \/ ht < st

\* Line 196 as it would be if the query name were lowercased first.
TxtKeyLower(name) == ToLower(name)

\* Line 196: the key the TXT branch reads ts.txtRecords with.
TxtKey(name) == name

\* A message arrives: lines 147-158.
DnsStart(d, msg) ==
    /\ ~crashed
    /\ FirstFree(DnsSlots, dns, d)
    /\ nQueries < MaxQueries
    /\ nQueries' = nQueries + 1
    /\ dns' = [dns EXCEPT ![d] = [IdleDns EXCEPT !.pc = "q", !.msg = msg, !.qi = 1,
                                     !.snap = <<Len(pubLog), Len(versions), fileExists>>]]
    /\ UNCHANGED <<shellFakeDNS, launcher, envFakeDNS, fileExists, versions, hosts, hostsTime,
                   txtRecords, mu, http, crashed, pubLog, nRequests>>

\* One turn of the loop of line 159 up to the first access to shared state:
\* the log line of line 160 and the switch of line 161.
DnsQuestion(d) ==
    LET r == dns[d]
        q == r.msg[r.qi]
        r0 == [r EXCEPT !.ips = <<>>, !.err = None, !.st = 0, !.hm = NilMap]
    IN  /\ ~crashed
        /\ r.pc = "q"
        /\ r.qi <= Len(r.msg)
        /\ dns' = [dns EXCEPT ![d] =
                CASE q.qtype = "A" ->
                        IF fakeDNS(envFakeDNS) = HostsWord
                        THEN [r0 EXCEPT !.pc = "stat"]
                        ELSE AppendAnswer(r0, ARecord(q.name, FakeAddress[envFakeDNS]))
                  [] q.qtype = "MX" -> AppendAnswer(r0, MXRecord(q.name))
                  [] q.qtype = "TXT" -> [r0 EXCEPT !.pc = "rlock"]
                  [] q.qtype = "CAA" ->
                        IF q.name = BadCAA \/ q.name = GoodCAA
                        THEN AppendAnswer(r0, CAARecord(q.name))
                        ELSE NextQ(r0)
                  [] OTHER -> NextQ(r0)]
        /\ UNCHANGED <<shellFakeDNS, launcher, envFakeDNS, fileExists, versions, hosts,
                       hostsTime, txtRecords, mu, http, crashed, pubLog, nRequests, nQueries>>

\* Line 292, os.Stat("/etc/hosts"): the modification time, or "not exist"
\* (which lookupStaticIP, line 279, turns into no addresses and no error),
\* or another error (lines 293-294, 281-282).
DnsStat(d) ==
    LET r == dns[d] IN
    /\ ~crashed
    /\ r.pc = "stat"
    /\ \/ /\ fileExists
          /\ dns' = [dns EXCEPT ![d] = [r EXCEPT !.st = ModTime, !.pc = "check"]]
       \/ /\ ~fileExists
          /\ dns' = [dns EXCEPT ![d] = NotExist(r)]
       \/ dns' = [dns EXCEPT ![d] = LookupErr(r, "EIO")]
    /\ crashed' = (dns'[d].pc = "panic")
    /\ UNCHANGED <<shellFakeDNS, launcher, envFakeDNS, fileExists, versions, hosts, hostsTime,
                   txtRecords, mu, http, pubLog, nRequests, nQueries>>

\* Line 297. hosts and hostsTime are package variables that every dnsHandler
\* goroutine reads and writes without a lock; the steps below interleave
\* those accesses statement by statement.
DnsCheck(d) ==
    LET r == dns[d] IN
    /\ ~crashed
    /\ r.pc = "check"
    /\ dns' = [dns EXCEPT ![d].pc = IF NeedsLoad(hosts, hostsTime, r.st) THEN "load" ELSE "ret"]
    /\ UNCHANGED <<shellFakeDNS, launcher, envFakeDNS, fileExists, versions, hosts, hostsTime,
                   txtRecords, mu, http, crashed, pubLog, nRequests, nQueries>>

\* Line 298, loadHosts (lines 316-324): the file as it is now is opened and
\* parsed; os.Open or a read may fail.
DnsLoad(d) ==
    LET r == dns[d] IN
    /\ ~crashed
    /\ r.pc = "load"
    /\ \/ /\ fileExists
          /\ dns' = [dns EXCEPT ![d] = [r EXCEPT !.loaded = SomeMap(ParsedHosts[Content]),
                                                   !.pc = "sethosts"]]
       \/ /\ ~fileExists
          /\ dns' = [dns EXCEPT ![d] = NotExist(r)]
       \/ dns' = [dns EXCEPT ![d] = LookupErr(r, "EIO")]
    /\ crashed' = (dns'[d].pc = "panic")
    /\ UNCHANGED <<shellFakeDNS, launcher, envFakeDNS, fileExists, versions, hosts, hostsTime,
                   txtRecords, mu, http, pubLog, nRequests, nQueries>>

\* Line 302: hosts = hm.
DnsSetHosts(d) ==
    /\ ~crashed
    /\ dns[d].pc = "sethosts"
    /\ hosts' = dns[d].loaded
    /\ dns' = [dns EXCEPT ![d].pc = "settime"]
    /\ UNCHANGED <<shellFakeDNS, launcher, envFakeDNS, fileExists, versions, hostsTime,
                   txtRecords, mu, http, crashed, pubLog, nRequests, nQueries>>

\* Line 303: hostsTime = st.ModTime().
DnsSetTime(d) ==
    /\ ~crashed
    /\ dns[d].pc = "settime"
    /\ hostsTime' = dns[d].st
    /\ dns' = [dns EXCEPT ![d].pc = "ret"]
    /\ UNCHANGED <<shellFakeDNS, launcher, envFakeDNS, fileExists, versions, hosts,
                   txtRecords, mu, http, crashed, pubLog, nRequests, nQueries>>

\* Line 306 (return hosts), line 285 (hm[name]) and lines 172-181.
DnsRet(d) ==
    LET r == dns[d] IN
    /\ ~crashed
    /\ r.pc = "ret"
    /\ dns' = [dns EXCEPT ![d] = Line176(r, hosts)]
    /\ crashed' = (dns'[d].pc = "panic")
    /\ UNCHANGED <<shellFakeDNS, launcher, envFakeDNS, fileExists, versions, hosts, hostsTime,
                   txtRecords, mu, http, pubLog, nRequests, nQueries>>

\* Line 195 as it would be if the read lock did not wait for a writer.
DnsRLockNoWait(d) ==
    /\ ~crashed
    /\ dns[d].pc = "rlock"
    /\ mu' = [mu EXCEPT !.r = @ \cup {d}]
    /\ dns' = [dns EXCEPT ![d].pc = "read"]
    /\ UNCHANGED <<shellFakeDNS, launcher, envFakeDNS, fileExists, versions, hosts, hostsTime,
                   txtRecords, http, crashed, pubLog, nRequests, nQueries>>

\* Line 195: ts.mu.RLock().
DnsRLock(d) ==
    /\ ~crashed
    /\ dns[d].pc = "rlock"
    /\ mu.w = None
    /\ mu' = [mu EXCEPT !.r = @ \cup {d}]
    /\ dns' = [dns EXCEPT ![d].pc = "read"]
    /\ UNCHANGED <<shellFakeDNS, launcher, envFakeDNS, fileExists, versions, hosts, hostsTime,
                   txtRecords, http, crashed, pubLog, nRequests, nQueries>>

\* Line 196: value, present := ts.txtRecords[q.Name].
DnsRead(d) ==
    LET r == dns[d]
        k == TxtKey(r.msg[r.qi].name)
    IN  /\ ~crashed
        /\ r.pc = "read"
        /\ dns' = [dns EXCEPT ![d] = [r EXCEPT !.value = MapGet(txtRecords, k, ""),
                                               !.present = (k \in DOMAIN txtRecords),
                                               !.pc = "runlock"]]
        /\ UNCHANGED <<shellFakeDNS, launcher, envFakeDNS, fileExists, versions, hosts,
                       hostsTime, txtRecords, mu, http, crashed, pubLog, nRequests,
                       nQueries>>

\* Lines 197-199 as they would be if "continue" came before the RUnlock.
DnsRUnlockUnlessAbsent(d) ==
    LET r == dns[d] IN
    /\ ~crashed
    /\ r.pc = "runlock"
    /\ mu' = IF ~r.present THEN mu ELSE [mu EXCEPT !.r = @ \ {d}]
    /\ dns' = [dns EXCEPT ![d] =
                  IF ~r.present THEN NextQ(r)
                  ELSE AppendAnswer(r, TXTRecord(r.msg[r.qi].name, r.value))]
    /\ UNCHANGED <<shellFakeDNS, launcher, envFakeDNS, fileExists, versions, hosts, hostsTime,
                   txtRecords, http, crashed, pubLog, nRequests, nQueries>>

\* Line 197, ts.mu.RUnlock(), and lines 198-209.
DnsRUnlock(d) ==
    LET r == dns[d] IN
    /\ ~crashed
    /\ r.pc = "runlock"
    /\ mu' = [mu EXCEPT !.r = @ \ {d}]
    /\ dns' = [dns EXCEPT ![d] =
                  IF ~r.present THEN NextQ(r)
                  ELSE AppendAnswer(r, TXTRecord(r.msg[r.qi].name, r.value))]
    /\ UNCHANGED <<shellFakeDNS, launcher, envFakeDNS, fileExists, versions, hosts, hostsTime,
                   txtRecords, http, crashed, pubLog, nRequests, nQueries>>

\* Line 239 as it would be if a failed message got no authority record.
AuthorityUnlessFailed(m) ==
    IF m.rcode = ServerFailure THEN m ELSE [m EXCEPT !.ns = Append(@, SOARecord)]

\* Line 239: m.Ns = append(m.Ns, auth).
Authority(m) == [m EXCEPT !.ns = Append(@, SOARecord)]

\* Lines 230-242: the SOA goes into the authority section and the reply is written.
DnsReply(d) ==
    LET r == dns[d]
        m == Authority(r.m)
    IN  /\ ~crashed
        /\ r.pc = "q"
        /\ r.qi > Len(r.msg)
        /\ dns' = [dns EXCEPT ![d] = [r EXCEPT !.m = m, !.reply = <<m>>, !.pc = "done"]]
        /\ UNCHANGED <<shellFakeDNS, launcher, envFakeDNS, fileExists, versions, hosts,
                       hostsTime, txtRecords, mu, http, crashed, pubLog, nRequests, nQueries>>

\* The goroutine of an answered message ends.
DnsReturn(d) ==
    /\ ~crashed
    /\ dns[d].pc = "done"
    /\ dns' = [dns EXCEPT ![d] = IdleDns]
    /\ UNCHANGED <<shellFakeDNS, launcher, envFakeDNS, fileExists, versions, hosts, hostsTime,
                   txtRecords, mu, http, crashed, pubLog, nRequests, nQueries>>

----------------------------------------------------------------------------------------------------------------------------------------
(* The specifications. *)

HttpStep(h) ==
    \/ \E req \in Requests : HttpRequest(h, req)
    \/ HttpLock(h)
    \/ HttpWrite(h)
    \/ HttpLog(h)
    \/ HttpRespond(h)
    \/ HttpUnlock(h)
    \/ HttpReturn(h)

\* The steps of dnsHandler every message takes.
DnsLoopStep(d) ==
    \/ DnsQuestion(d)
    \/ DnsReply(d)
    \/ DnsReturn(d)

\* The steps of the TXT branch.
DnsTxtStep(d) ==
    \/ DnsRLock(d)
    \/ DnsRead(d)
    \/ DnsRUnlock(d)

\* The steps of the A branch on the hosts-file path.
DnsHostsStep(d) ==
    \/ DnsStat(d)
    \/ DnsCheck(d)
    \/ DnsLoad(d)
    \/ DnsSetHosts(d)
    \/ DnsSetTime(d)
    \/ DnsRet(d)

FileStep ==
    \/ \E c \in Rewrites : RewriteHosts(c)
    \/ RemoveHosts

\* Every goroutine of the two listeners runs concurrently with the others.
Next ==
    \/ \E h \in HttpProcs : HttpStep(h)
    \/ \E d \in DnsProcs : \E msg \in Messages : DnsStart(d, msg)
    \/ \E d \in DnsProcs : DnsLoopStep(d) \/ DnsTxtStep(d) \/ DnsHostsStep(d)
    \/ FileStep

Spec == Init /\ [][Next]_vars

\* The Record Store side: the control API against messages of TXT and MX
\* questions. No step of it reads or writes the hosts file, the hosts cache
\* or FAKE_DNS, so one start of the server and one file stand for all.
TxtMessages ==
    {<<[name |-> NameLower, qtype |-> "TXT"]>>,
     <<[name |-> NameUpper, qtype |-> "TXT"]>>,
     <<[name |-> NameLower, qtype |-> "MX"], [name |-> NameLower, qtype |-> "TXT"]>>,
     <<[name |-> NameUpper, qtype |-> "TXT"], [name |-> NameLower, qtype |-> "TXT"]>>}

InitTxt == Init /\ launcher = "direct" /\ shellFakeDNS = <<>> /\ fileExists

NextTxt ==
    \/ \E h \in HttpProcs : HttpStep(h)
    \/ \E d \in DnsProcs : \E msg \in TxtMessages : DnsStart(d, msg)
    \/ \E d \in DnsProcs : DnsLoopStep(d) \/ DnsTxtStep(d)

SpecTxt == InitTxt /\ [][NextTxt]_vars

\* The control API alone: every request of the model, two at a time.
NextHttp == \E h \in HttpProcs : HttpStep(h)

SpecHttp == InitTxt /\ [][NextHttp]_vars

\* The hosts side: messages of A and MX questions against a hosts file that
\* is rewritten and removed while they are served, under every start of the
\* server. No step of it reads or writes ts.txtRecords or ts.mu.
HostsMessages ==
    {<<[name |-> NameLower, qtype |-> "A"]>>,
     <<[name |-> NameNone, qtype |-> "A"]>>,
     <<[name |-> NameNone, qtype |-> "A"], [name |-> NameLower, qtype |-> "A"]>>,
     <<[name |-> NameLower, qtype |-> "MX"], [name |-> NameLower, qtype |-> "A"]>>}

NextHosts ==
    \/ \E d \in DnsProcs : \E msg \in HostsMessages : DnsStart(d, msg)
    \/ \E d \in DnsProcs : DnsLoopStep(d) \/ DnsHostsStep(d)
    \/ FileStep

SpecHosts == Init /\ [][NextHosts]_vars

\* The hosts side with the messages served one after the other: a message is
\* taken up only when no other is being handled.
DnsStartSeq(d, msg) ==
    /\ \A e \in DnsProcs : dns[e].pc \in {"idle", "done"}
    /\ DnsStart(d, msg)

NextHostsSeq ==
    \/ \E d \in DnsProcs : \E msg \in HostsMessages : DnsStartSeq(d, msg)
    \/ \E d \in DnsProcs : DnsLoopStep(d) \/ DnsHostsStep(d)
    \/ FileStep

SpecHostsSeq == Init /\ [][NextHostsSeq]_vars

\* The same with the scheduling of Go: a goroutine that can take a step of
\* dnsHandler takes it in the end. Nothing is assumed of the arrival of
\* messages or of the changes to the file.
FairHosts == \A d \in DnsProcs : WF_vars(DnsLoopStep(d) \/ DnsHostsStep(d))

SpecHostsLive == SpecHostsSeq /\ FairHosts

\* The hosts side over every content of the file: the server starts with
\* /etc/hosts absent or holding any of FileContents, and the file is
\* rewritten with any of them; messages are served one after the other.
FilesMessages ==
    {<<[name |-> NameLower, qtype |-> "A"]>>,
     <<[name |-> NameNone, qtype |-> "A"]>>}

InitFiles ==
    /\ shellFakeDNS = HostsWord
    /\ launcher = "direct"
    /\ envFakeDNS = shellFakeDNS
    /\ fileExists \in BOOLEAN
    /\ versions \in IF fileExists THEN {<<c>> : c \in FileContents} ELSE {<<>>}
    /\ hosts = NilMap
    /\ hostsTime = 0
    /\ txtRecords = EmptyMap
    /\ mu = [w |-> None, r |-> {}]
    /\ http = [h \in HttpProcs |-> IdleHttp]
    /\ dns = [d \in DnsProcs |-> IdleDns]
    /\ crashed = FALSE
    /\ pubLog = <<>>
    /\ nRequests = 0
    /\ nQueries = 0

NextFiles ==
    \/ \E d \in DnsProcs : \E msg \in FilesMessages : DnsStartSeq(d, msg)
    \/ \E d \in DnsProcs : DnsLoopStep(d) \/ DnsHostsStep(d)
    \/ \E c \in FileContents : RewriteHosts(c)
    \/ RemoveHosts

SpecFiles == InitFiles /\ [][NextFiles]_vars

\* Messages of every question type and publishes of one host, each served
\* when nothing else is being served, with FAKE_DNS empty, "hosts" or an
\* address.
PublishRequests ==
    {[path |-> "/set-txt", method |-> "POST", body |-> HostValue(NameLower, "v2")],
     [path |-> "/set-txt", method |-> "POST", body |-> HostValue(NameNoDot, "v1")]}

InitQuestions == Init /\ launcher = "direct"

\* Nothing is being served: every goroutine of a listener has ended.
Quiet ==
    /\ \A h \in HttpProcs : http[h].pc = "idle"
    /\ \A d \in DnsProcs : dns[d].pc = "idle"

NextQuestions ==
    \/ \E h \in HttpProcs :
          \/ \E req \in PublishRequests : Quiet /\ HttpRequest(h, req)
          \/ HttpLock(h)
          \/ HttpWrite(h)
          \/ HttpLog(h)
          \/ HttpRespond(h)
          \/ HttpUnlock(h)
          \/ HttpReturn(h)
    \/ \E d \in DnsProcs : \E msg \in Messages : Quiet /\ DnsStart(d, msg)
    \/ \E d \in DnsProcs : DnsLoopStep(d) \/ DnsTxtStep(d) \/ DnsHostsStep(d)

SpecQuestions == InitQuestions /\ [][NextQuestions]_vars

\* The lock of the record store under the scheduling of Go: publishes and
\* TXT lookups, of names the store has and of names it lacks, two of each
\* at a time. A goroutine that can take a step of its handler takes it in
\* the end; nothing is assumed of the arrival of requests and messages.
LockMessages ==
    {<<[name |-> NameLower, qtype |-> "TXT"]>>,
     <<[name |-> NameNone, qtype |-> "TXT"], [name |-> NameLower, qtype |-> "TXT"]>>}

NextLock ==
    \/ \E h \in HttpProcs :
          \/ \E req \in PublishRequests : HttpRequest(h, req)
          \/ HttpLock(h)
          \/ HttpWrite(h)
          \/ HttpLog(h)
          \/ HttpRespond(h)
          \/ HttpUnlock(h)
          \/ HttpReturn(h)
    \/ \E d \in DnsProcs : \E msg \in LockMessages : DnsStart(d, msg)
    \/ \E d \in DnsProcs : DnsLoopStep(d) \/ DnsTxtStep(d)

SpecLock == InitTxt /\ [][NextLock]_vars

FairLock ==
    /\ \A h \in HttpProcs :
           WF_vars(HttpLock(h) \/ HttpWrite(h) \/ HttpLog(h) \/ HttpRespond(h)
                   \/ HttpUnlock(h) \/ HttpReturn(h))
    /\ \A d \in DnsProcs : WF_vars(DnsLoopStep(d) \/ DnsTxtStep(d))

SpecLockLive == SpecLock /\ FairLock

----------------------------------------------------------------------------
(* Notions the properties below are stated with. *)

Last(s) == s[Len(s)]

\* The question a handler has just dealt with: the one at hand when the
\* handler panicked on it, otherwise the one before the one at hand.
Handled(r) == IF r.pc = "panic" THEN r.msg[r.qi] ELSE r.msg[r.qi - 1]

\* A handler that has dealt with at least one question and stands between
\* two questions, has written its reply, or has panicked.
Between(r) == (r.pc \in {"q", "done"} /\ r.qi > 1) \/ r.pc = "panic"

\* The value of the last write of line 141 whose lowercased host is k.
LastValue(log, k) ==
    LET idx == {i \in 1..Len(log) : ToLower(log[i][1]) = k}
        last == CHOOSE i \in idx : \A j \in idx : j <= i
    IN  log[last][2]

Published == {ToLower(pubLog[i][1]) : i \in 1..Len(pubLog)}

\* The goroutines inside the sections ts.mu guards.
WritersIn == {h \in HttpProcs : http[h].pc \in {"write", "log", "respond", "unlock"}}
ReadersIn == {d \in DnsProcs : dns[d].pc \in {"read", "runlock"}}

\* The goroutines inside allHosts (lines 292-306).
InAllHosts == {d \in DnsProcs : dns[d].pc \in {"check", "load", "sethosts", "settime", "ret"}}

\* What one question yields from the record store, the hosts file and
\* FAKE_DNS as they are now, for a server that has served nothing before and
\* meets no file-system error.
FreshAnswer(q) ==
    CASE q.qtype = "A" ->
            IF fakeDNS(envFakeDNS) = HostsWord
            THEN LET ips == IF fileExists THEN LookupIn(SomeMap(readHosts(Content)), q.name)
                            ELSE <<>>
                 IN  IF ips = <<>> THEN <<[panic |-> TRUE]>> ELSE <<ARecord(q.name, ips[1])>>
            ELSE <<ARecord(q.name, ParseIP(fakeDNS(envFakeDNS)))>>
      [] q.qtype = "MX" -> <<MXRecord(q.name)>>
      [] q.qtype = "TXT" ->
            IF q.name \in DOMAIN txtRecords THEN <<TXTRecord(q.name, txtRecords[q.name])>> ELSE <<>>
      [] q.qtype = "CAA" ->
            IF q.name \in {BadCAA, GoodCAA} THEN <<CAARecord(q.name)>> ELSE <<>>
      [] OTHER -> <<>>

RECURSIVE FreshAnswers(_)
FreshAnswers(msg) == IF msg = <<>> THEN <<>> ELSE FreshAnswer(Head(msg)) \o FreshAnswers(Tail(msg))

----------------------------------------------------------------------------
(* C1. An A question on the hosts-file path whose name has no address (the  *)
(* hosts file lacks it, or is absent): the response gets rcode             *)
(* ServerFailure, no A answer is added for it, and the handler goes on to  *)
(* the remaining questions instead of panicking.                           *)
C1_UnresolvedIsServerFailure ==
    \A d \in DnsProcs :
        (Between(dns[d]) /\ Handled(dns[d]).qtype = "A" /\ dns[d].err = Nil /\ dns[d].ips = <<>>)
        => /\ dns[d].pc # "panic"
           /\ ~crashed
           /\ dns[d].m.rcode = ServerFailure
           /\ \A i \in 1..Len(dns[d].m.answer) :
                  dns[d].m.answer[i].hdr # Hdr(Handled(dns[d]).name, "A")

(* C2 as stated. With FAKE_DNS unset or empty, an A question is resolved   *)
(* through lookupStaticIP, as it is with FAKE_DNS = "hosts".               *)
C2_EmptyMeansHostsFile ==
    \A d \in DnsProcs :
        (Between(dns[d]) /\ Handled(dns[d]).qtype = "A" /\ envFakeDNS = <<>>)
        => dns[d].err # None

(* C2 as amended. A server process that sees FAKE_DNS unset or empty       *)
(* answers an A question with 127.0.0.1 and does not call lookupStaticIP;  *)
(* lookupStaticIP is called exactly when the process sees FAKE_DNS =       *)
(* "hosts", which is what run-docker.sh hands to the container when the    *)
(* caller's FAKE_DNS is unset or empty.                                    *)
C2_EmptyMeansLocalhost ==
    /\ \A d \in DnsProcs :
          (Between(dns[d]) /\ Handled(dns[d]).qtype = "A")
          => /\ (dns[d].err # None) <=> (envFakeDNS = HostsWord)
             /\ envFakeDNS = <<>> =>
                   Last(dns[d].m.answer) = ARecord(Handled(dns[d]).name, Localhost)
    /\ (launcher = "run-docker" /\ shellFakeDNS = <<>>) => envFakeDNS = HostsWord

C2_Witness ==
    \E d \in DnsProcs :
        /\ envFakeDNS = <<>>
        /\ dns[d].pc = "done"
        /\ dns[d].msg = <<[name |-> NameNone, qtype |-> "A"]>>
        /\ dns[d].reply[1].answer = <<ARecord(NameNone, Localhost)>>

(* C3. The record store holds exactly the lowercased hosts written so far, *)
(* each with the value of the most recent write for it.                    *)
C3_LastPublishWins ==
    /\ DOMAIN txtRecords = Published
    /\ \A k \in DOMAIN txtRecords : txtRecords[k] = LastValue(pubLog, k)

C3_Witness ==
    /\ pubLog = <<(<<NameUpper, "v1">>), (<<NameLower, "v2">>)>>
    /\ DOMAIN txtRecords = {NameLower}
    /\ txtRecords[NameLower] = "v2"
    /\ \A h \in HttpProcs : http[h].pc = "done" /\ http[h].status = 200

(* C4. A TXT question whose name equals a published host up to letter case *)
(* finds the value published for that host.                                *)
C4_CaseInsensitiveLookup ==
    \A d \in DnsProcs :
        (dns[d].pc = "runlock" /\ ToLower(dns[d].msg[dns[d].qi].name) \in Published)
        => /\ dns[d].present
           /\ dns[d].value = LastValue(pubLog, ToLower(dns[d].msg[dns[d].qi].name))

(* C5. The TXT branch reads the store with the query name as received: the *)
(* read finds a value exactly when that very name is a key, and the        *)
(* question then adds one TXT record with that value, or nothing when the  *)
(* name is no key; the rcode is left as it was.                            *)
C5_TxtVerbatim ==
    [][\A d \in DnsProcs :
          /\ (dns[d].pc = "read" /\ dns'[d].pc = "runlock")
             => LET q == dns[d].msg[dns[d].qi] IN
                /\ dns'[d].present = (q.name \in DOMAIN txtRecords)
                /\ q.name \in DOMAIN txtRecords => dns'[d].value = txtRecords[q.name]
          /\ (dns[d].pc = "runlock" /\ dns'[d].pc = "q")
             => LET q == dns[d].msg[dns[d].qi] IN
                /\ dns'[d].m.rcode = dns[d].m.rcode
                /\ dns'[d].m.answer =
                      IF dns[d].present
                      THEN Append(dns[d].m.answer,
                                  [hdr |-> Hdr(q.name, "TXT"), txt |-> <<dns[d].value>>])
                      ELSE dns[d].m.answer]_vars

C5_Witness ==
    \E d \in DnsProcs :
        /\ dns[d].pc = "done"
        /\ dns[d].msg = <<[name |-> NameUpper, qtype |-> "TXT"], [name |-> NameLower, qtype |-> "TXT"]>>
        /\ NameUpper \notin DOMAIN txtRecords
        /\ dns[d].reply[1].rcode = Success
        /\ dns[d].reply[1].answer = <<[hdr |-> Hdr(NameLower, "TXT"), txt |-> <<"v2">>]>>

(* C6. At most one publish is inside the write section, and while one is,  *)
(* no TXT lookup is inside its read section.                               *)
C6_WriterExcludesAll ==
    /\ Cardinality(WritersIn) <= 1
    /\ Cardinality(WritersIn) = 1 => ReadersIn = {}

C6_Witness ==
    /\ http["h1"].pc = "write"
    /\ http["h2"].pc = "lock"
    /\ dns["d1"].pc = "rlock"
    /\ dns["d2"].pc = "rlock"

(* C7. No goroutine holds ts.mu where it writes output: not setTXT at its  *)
(* log line (142) or its WriteHeader (143), not dnsHandler at its log line *)
(* (160) or its WriteMsg (241).                                            *)
C7_NoLockAcrossIO ==
    /\ \A h \in HttpProcs : http[h].pc \in {"log", "respond"} => ~Holds(h)
    /\ \A d \in DnsProcs : dns[d].pc = "q" => ~Holds(d)

(* C8. The hosts cache is replaced atomically, so a cached table is never  *)
(* older than its timestamp says: whenever no handler is inside allHosts,  *)
(* a cached table is the parse of a file version whose modification time   *)
(* is hostsTime or later.                                                  *)
C8_CacheNotOlderThanTimestamp ==
    (InAllHosts = {} /\ hosts # NilMap)
    => /\ hostsTime \in 1..Len(versions)
       /\ \E v \in hostsTime..Len(versions) : hosts = SomeMap(readHosts(versions[v]))

C10_ReplyIndependentOfHistory ==
    \A d \in DnsProcs :
        (/\ dns[d].pc = "done"
         /\ dns[d].snap = <<Len(pubLog), Len(versions), fileExists>>
         /\ dns[d].reply[1].rcode = Success)
        => dns[d].reply[1].answer = FreshAnswers(dns[d].msg)

(* C11. Every message dnsHandler takes up is answered in the end: with the *)
(* goroutines scheduled fairly, a handler that has started on a message     *)
(* gets through all its questions and writes its reply.                     *)
C11_EveryMessageAnswered ==
    \A d \in DnsProcs : (dns[d].pc = "q" /\ dns[d].qi = 1) ~> (dns[d].reply # <<>>)

(* C12. Every reply written carries exactly one authority record, the SOA  *)
(* of boulder.invalid. with ns.boulder.invalid., master.boulder.invalid.   *)
(* and serial, refresh, retry, expire and minimum 1, whatever the          *)
(* questions were and whether or not an A question failed.                 *)
C12_OneSOAAuthority ==
    \A d \in DnsProcs :
        dns[d].reply # <<>>
        => dns[d].reply[1].ns =
              <<[hdr |-> [name |-> "boulder.invalid.", rrtype |-> "SOA", class |-> "IN", ttl |-> 0],
                 ns |-> "ns.boulder.invalid.", mbox |-> "master.boulder.invalid.",
                 serial |-> 1, refresh |-> 1, retry |-> 1, expire |-> 1, minttl |-> 1]>>

C12_Witness ==
    \E d \in DnsProcs :
        /\ dns[d].pc = "done"
        /\ dns[d].msg = <<[name |-> NameLower, qtype |-> "A"], [name |-> NameLower, qtype |-> "MX"]>>
        /\ dns[d].reply[1].rcode = ServerFailure
        /\ Len(dns[d].reply[1].answer) = 1
        /\ Len(dns[d].reply[1].ns) = 1

\* A request setTXT is to accept: a POST to /set-txt whose body is JSON with
\* a host that is not empty.
Accepted(req) ==
    /\ req.path = "/set-txt"
    /\ req.method = "POST"
    /\ req.body.kind = "json"
    /\ "host" \in DOMAIN req.body.obj
    /\ req.body.obj["host"] # <<>>

(* C13. The status a request is answered with: 404 for a path other than   *)
(* /set-txt whatever the method, 405 for /set-txt with a method other than *)
(* POST, 400 for a POST to /set-txt whose body is no JSON or has no host   *)
(* or an empty one, and 200 only for a POST to /set-txt with JSON and a    *)
(* host that is not empty.                                                 *)
C13_StatusMapping ==
    \A h \in HttpProcs :
        http[h].status # 0
        => LET req == http[h].req[1] IN
           http[h].status =
               IF req.path # "/set-txt" THEN 404
               ELSE IF req.method # "POST" THEN 405
               ELSE IF ~Accepted(req) THEN 400
               ELSE 200

C13_Witness ==
    /\ http["h1"].pc = "done"
    /\ http["h1"].req[1] = [path |-> "/other", method |-> "GET", body |-> Garbage]
    /\ http["h1"].status = 404
    /\ http["h2"].pc = "done"
    /\ http["h2"].req[1].body = JsonBody([f \in {"value"} |-> "v1"])
    /\ http["h2"].status = 400

(* C14. A request answered 404, 405 or 400 is rejected in its first step,  *)
(* before the lock is taken, and leaves the record store as it was. The    *)
(* store changes only in the step of line 141 of a request that is to be   *)
(* accepted, there in the one key of its lowercased host, and a request    *)
(* that has made that step does not make it again.                         *)
C14_RejectedLeavesStore ==
    [][/\ \A h \in HttpProcs :
             (http[h].status = 0 /\ http'[h].status \in {400, 404, 405})
             => /\ http[h].pc = "idle"
                /\ http'[h].pc = "done"
                /\ txtRecords' = txtRecords
                /\ pubLog' = pubLog
       /\ (txtRecords' # txtRecords \/ pubLog' # pubLog)
          => \E h \in HttpProcs :
                 /\ http[h].pc = "write"
                 /\ http'[h].pc = "log"
                 /\ Accepted(http[h].req[1])
                 /\ Len(pubLog') = Len(pubLog) + 1
                 /\ DOMAIN txtRecords' = DOMAIN txtRecords \cup {ToLower(http[h].req[1].body.obj["host"])}
                 /\ \A k \in DOMAIN txtRecords :
                        k # ToLower(http[h].req[1].body.obj["host"]) => txtRecords'[k] = txtRecords[k]
       /\ \A h \in HttpProcs :
             http[h].pc \in {"log", "respond", "unlock", "done"}
             => http'[h].pc \notin {"lock", "write"}
       /\ \A h \in HttpProcs :
             (http[h].pc = "unlock" /\ http'[h].pc = "done") => http'[h].status = 200]_vars

C14_Witness ==
    /\ http["h1"].pc = "done"
    /\ http["h1"].status = 200
    /\ http["h2"].pc = "done"
    /\ http["h2"].status = 400
    /\ http["h2"].req[1].body = HostValue(<<>>, "v1")
    /\ Len(pubLog) = 1
    /\ DOMAIN txtRecords = {NameLower}

\* Those of the first n writes of line 141 that stored under the key k.
WritesTo(k, n) == {i \in 1..n : ToLower(pubLog[i][1]) = k}

(* C15. A publish is atomic for lookups. No lookup is inside its read      *)
(* section while a publish is about to make its write, so a lookup sees a  *)
(* value before or after a write, never during it. The value a lookup of   *)
(* the key k reads is one that was published for k, and not one that had   *)
(* been overwritten when the message came; a lookup that reads nothing     *)
(* belongs to a message that came when nothing had been stored under k.    *)
(* (Every publish answered 200 before the message came had made its write.) *)
C15_PublishAtomic ==
    /\ \A d \in DnsProcs :
          dns[d].pc \in {"read", "runlock"} => \A h \in HttpProcs : http[h].pc # "write"
    /\ \A d \in DnsProcs :
          dns[d].pc = "runlock"
          => LET k == dns[d].msg[dns[d].qi].name
                 before == WritesTo(k, dns[d].snap[1])
                 sofar == WritesTo(k, Len(pubLog))
             IN  /\ dns[d].present
                    => \E i \in sofar : /\ dns[d].value = pubLog[i][2]
                                        /\ \A j \in before : j <= i
                 /\ ~dns[d].present => before = {}

C15_Witness ==
    \E d \in DnsProcs :
        /\ dns[d].pc = "runlock"
        /\ dns[d].msg[dns[d].qi].name = NameLower
        /\ pubLog = <<(<<NameUpper, "v1">>), (<<NameLower, "v2">>)>>
        /\ dns[d].snap[1] = 1
        /\ dns[d].present
        /\ dns[d].value = "v2"
        /\ \E h \in HttpProcs : http[h].pc = "done" /\ http[h].status = 200

(* C16. allHosts with a table cached and a cached time that is not before  *)
(* the modification time os.Stat gave: the call goes to its return without *)
(* opening or parsing the file, leaves hosts and hostsTime as they are,    *)
(* and returns the cached table.                                           *)
C16_CacheReused ==
    [][\A d \in DnsProcs :
          /\ (/\ dns[d].pc = "check"
              /\ dns'[d].pc # "check"
              /\ hosts # NilMap
              /\ ~(hostsTime < dns[d].st))
             => /\ dns'[d].pc = "ret"
                /\ dns'[d].loaded = NilMap
                /\ hosts' = hosts
                /\ hostsTime' = hostsTime
          /\ (dns[d].pc = "ret" /\ dns[d].loaded = NilMap /\ dns'[d].pc # "ret")
             => /\ hosts' = hosts
                /\ hostsTime' = hostsTime
                /\ dns'[d].hm = hosts]_vars

C16_Witness ==
    \E d \in DnsProcs :
        /\ dns[d].pc = "ret"
        /\ dns[d].loaded = NilMap
        /\ hosts = SomeMap(readHosts(File2))
        /\ hostsTime = 2
        /\ dns[d].st = 2
        /\ nQueries = 2

(* C17. A step of os.Stat or of loadHosts has one of three outcomes. It    *)
(* succeeds, the file being there. Or the file is absent: lookupStaticIP   *)
(* returns no addresses and no error, and the reply being built is left as *)
(* it is. Or another error: lookupStaticIP returns it with no addresses,   *)
(* the rcode becomes ServerFailure, no answer is added and the handler     *)
(* goes on to the next question. "Not exist" is never returned as an error. *)
C17_AbsentIsEmptyOtherErrorFails ==
    [][\A d \in DnsProcs :
          (dns[d].pc \in {"stat", "load"} /\ dns'[d] # dns[d])
          => \/ /\ fileExists
                /\ dns'[d].pc \in {"check", "sethosts"}
                /\ dns'[d].err = None
             \/ /\ ~fileExists
                /\ dns'[d].err = Nil
                /\ dns'[d].ips = <<>>
                /\ dns'[d].m = dns[d].m
             \/ /\ dns'[d].err \notin {None, Nil, "ENOENT"}
                /\ dns'[d].ips = <<>>
                /\ dns'[d].m.rcode = ServerFailure
                /\ dns'[d].m.answer = dns[d].m.answer
                /\ dns'[d].pc = "q"
                /\ dns'[d].qi = dns[d].qi + 1]_vars

C17_Witness ==
    /\ ~fileExists
    /\ dns["d1"].err = "EIO"
    /\ dns["d1"].pc = "done"
    /\ dns["d1"].reply[1].rcode = ServerFailure
    /\ dns["d1"].reply[1].answer = <<>>
    /\ dns["d2"].err = Nil
    /\ dns["d2"].ips = <<>>
    /\ dns["d2"].hm = NilMap
    /\ dns["d2"].m.rcode = Success

\* ans is, question by question in the order of msg, one record of the
\* question's name and type or nothing: one for an MX question and for a CAA
\* question of one of the two reserved names, one or none for an A and for a
\* TXT question, none for any other question.
RECURSIVE AnswersMatch(_, _)
AnswersMatch(msg, ans) ==
    IF msg = <<>> THEN ans = <<>>
    ELSE LET q == Head(msg)
             one == /\ ans # <<>>
                    /\ Head(ans).hdr.name = q.name
                    /\ Head(ans).hdr.rrtype = q.qtype
                    /\ AnswersMatch(Tail(msg), Tail(ans))
             none == AnswersMatch(Tail(msg), ans)
         IN  CASE q.qtype = "MX" -> one
               [] q.qtype \in {"A", "TXT"} -> one \/ none
               [] q.qtype = "CAA" -> IF q.name \in {BadCAA, GoodCAA} THEN one ELSE none
               [] OTHER -> none

(* C18. The questions of a message are answered one by one. Handling a     *)
(* question leaves the answers of the earlier questions as they are and    *)
(* adds at most one record, of the question's own name and type; whether   *)
(* it adds one depends on that question alone (always for MX, for CAA on   *)
(* the name, for TXT on what the store held for the name, for A on the     *)
(* lookup not failing), not on the other questions or on the rcode they    *)
(* left. The answer section of a reply is therefore the concatenation, in  *)
(* question order, of what each question yields.                           *)
C18_QuestionsIndependent ==
    /\ [](\A d \in DnsProcs :
             dns[d].reply # <<>> => AnswersMatch(dns[d].msg, dns[d].reply[1].answer))
    /\ [][\A d \in DnsProcs :
             /\ (dns[d].qi >= 1 /\ dns'[d].qi = dns[d].qi)
                => dns'[d].m.answer = dns[d].m.answer
             /\ (dns[d].qi >= 1 /\ dns'[d].qi = dns[d].qi + 1)
                => LET q == dns[d].msg[dns[d].qi]
                       old == dns[d].m.answer
                       new == dns'[d].m.answer
                       yields == CASE q.qtype = "MX" -> TRUE
                                   [] q.qtype = "A" -> dns'[d].err \in {None, Nil}
                                   [] q.qtype = "TXT" -> dns[d].present
                                   [] q.qtype = "CAA" -> q.name \in {BadCAA, GoodCAA}
                                   [] OTHER -> FALSE
                   IN  /\ Len(new) = Len(old) + (IF yields THEN 1 ELSE 0)
                       /\ SubSeq(new, 1, Len(old)) = old
                       /\ yields => Last(new).hdr = [name |-> q.name, rrtype |-> q.qtype,
                                                     class |-> "IN", ttl |-> 0]]_vars

C18_Witness ==
    \E d \in DnsProcs :
        /\ dns[d].pc = "done"
        /\ dns[d].msg = <<[name |-> NameLower, qtype |-> "TXT"], [name |-> NameLower, qtype |-> "A"]>>
        /\ dns[d].reply[1].rcode = ServerFailure
        /\ Len(dns[d].reply[1].answer) = 1
        /\ dns[d].reply[1].answer[1].hdr.rrtype = "TXT"
        /\ dns[d].reply[1].answer[1].txt = <<"v2">>

\* The lines of a file: the texts its newlines end, and what follows the
\* last newline.
Lines(content) == SplitOn(content, NL)

\* An address line: not blank, not a comment, its first field an address.
IsAddressLine(line) ==
    LET t == TrimSpace(line) IN
    t # <<>> /\ t[1] # "#" /\ ParseIP(SplitFields(t)[1]) # NilIP

\* The addresses of the address lines among lines that name the host, in
\* the order of the lines, once for each time a line names it.
RECURSIVE AddrsOf(_, _)
AddrsOf(lines, name) ==
    IF lines = <<>> THEN <<>>
    ELSE LET fs == SplitFields(TrimSpace(Head(lines)))
             n == IF IsAddressLine(Head(lines))
                  THEN Len(SelectSeq(Tail(fs), LAMBDA x : x = name)) ELSE 0
         IN  [i \in 1..n |-> ParseIP(fs[1])] \o AddrsOf(Tail(lines), name)

IsPrefix(s, t) == Len(s) <= Len(t) /\ s = SubSeq(t, 1, Len(s))

(* C19. The table loadHosts gives for a file maps every alias of every     *)
(* address line: for each line of the file, the last one with or without a *)
(* newline, that is not blank, is no comment and starts with an address,   *)
(* every later field of the line is a key of the table and the address is  *)
(* among its addresses.                                                    *)
C19_EveryAliasMapped ==
    [][\A d \in DnsProcs :
          (dns[d].pc = "load" /\ dns'[d].pc = "sethosts")
          => \A i \in 1..Len(Lines(Content)) :
                 LET line == Lines(Content)[i]
                     fs == SplitFields(TrimSpace(line))
                     table == dns'[d].loaded.map
                 IN  IsAddressLine(line)
                     => \A j \in 2..Len(fs) :
                            /\ fs[j] \in DOMAIN table
                            /\ \E n \in 1..Len(table[fs[j]]) : table[fs[j]][n] = ParseIP(fs[1])]_vars

(* C20. An A question answered from a hosts table: the table was read from *)
(* some content of the file, the addresses it has for the name are in the  *)
(* order of the lines that name it, beginning with the first such line,    *)
(* and the reply holds exactly one A record for the question, with the     *)
(* address of that first line.                                             *)
C20_FirstLineWins ==
    \A d \in DnsProcs :
        (/\ Between(dns[d])
         /\ dns[d].pc # "panic"
         /\ Handled(dns[d]).qtype = "A"
         /\ dns[d].hm # NilMap)
        => LET q == Handled(dns[d])
               name == TrimRightDots(q.name)
           IN  \E v \in 1..Len(versions) :
                   LET all == AddrsOf(Lines(versions[v]), name) IN
                   /\ name \in DOMAIN dns[d].hm.map
                   /\ dns[d].hm.map[name] # <<>>
                   /\ IsPrefix(dns[d].hm.map[name], all)
                   /\ dns[d].m.answer =
                         <<[hdr |-> [name |-> q.name, rrtype |-> "A", class |-> "IN", ttl |-> 0],
                            a |-> all[1]]>>

C20_Witness ==
    \E d \in DnsProcs :
        /\ dns[d].pc = "done"
        /\ dns[d].msg = <<[name |-> NameLower, qtype |-> "A"]>>
        /\ versions # <<>>
        /\ Last(versions) = File3
        /\ dns[d].ips = <<IP2, IP1>>
        /\ Len(dns[d].reply[1].answer) = 1
        /\ dns[d].reply[1].answer[1].a = IP2

\* The fully-qualified, lowercased form of a host: the trailing dot is
\* added when the host is written without one.
Fqdn(h) == IF h # <<>> /\ Last(h) = "." THEN ToLower(h) ELSE ToLower(h) \o <<".">>

\* Those of the writes of line 141 so far whose host is the name, with or
\* without its trailing dot.
WritesFor(name) == {i \in 1..Len(pubLog) : Fqdn(pubLog[i][1]) = name}

(* C21. A publish need not give the trailing dot: a TXT lookup of a        *)
(* fully-qualified name finds the value of the latest publish for that     *)
(* host, whether the publish wrote the host with or without the trailing   *)
(* dot.                                                                    *)
C21_TrailingDotOptional ==
    \A d \in DnsProcs :
        (dns[d].pc = "runlock" /\ WritesFor(dns[d].msg[dns[d].qi].name) # {})
        => LET w == WritesFor(dns[d].msg[dns[d].qi].name)
               last == CHOOSE i \in w : \A j \in w : j <= i
           IN  /\ dns[d].present
               /\ dns[d].value = pubLog[last][2]

\* The handler d is about to deal with a question of type t.
AtQuestion(d, t) ==
    /\ dns[d].pc = "q"
    /\ dns[d].qi <= Len(dns[d].msg)
    /\ dns[d].msg[dns[d].qi].qtype = t

(* C22. Handling a CAA question adds exactly one CAA record with tag       *)
(* "issue" and value "sad-hacker-ca.invalid" for bad-caa-reserved.com.,    *)
(* exactly one with tag "issue" and value "happy-hacker-ca.invalid" for    *)
(* good-caa-reserved.com., and nothing for any other name.                 *)
C22_CAAByName ==
    [][\A d \in DnsProcs :
          (AtQuestion(d, "CAA") /\ dns'[d] # dns[d])
          => LET q == dns[d].msg[dns[d].qi]
                 hdr == [name |-> q.name, rrtype |-> "CAA", class |-> "IN", ttl |-> 0]
             IN  /\ dns'[d].qi = dns[d].qi + 1
                 /\ dns'[d].m.rcode = dns[d].m.rcode
                 /\ dns'[d].m.answer =
                       dns[d].m.answer \o
                       (IF q.name = BadCAA
                        THEN <<[hdr |-> hdr, tag |-> "issue", value |-> "sad-hacker-ca.invalid"]>>
                        ELSE IF q.name = GoodCAA
                        THEN <<[hdr |-> hdr, tag |-> "issue", value |-> "happy-hacker-ca.invalid"]>>
                        ELSE <<>>)]_vars

C22_Witness ==
    \E d \in DnsProcs :
        /\ dns[d].pc = "done"
        /\ dns[d].msg = <<[name |-> GoodCAA, qtype |-> "CAA"], [name |-> BadCAA, qtype |-> "CAA"]>>
        /\ Len(dns[d].reply[1].answer) = 2
        /\ dns[d].reply[1].answer[1].value = "happy-hacker-ca.invalid"
        /\ dns[d].reply[1].answer[2].value = "sad-hacker-ca.invalid"
        /\ nQueries = 2

(* C23. Handling an MX question, for any name and whatever the record      *)
(* store and the hosts file hold, adds exactly one MX record, with         *)
(* preference 10 and the exchange "mail." followed by the query name.      *)
C23_MXAlwaysOne ==
    [][\A d \in DnsProcs :
          (AtQuestion(d, "MX") /\ dns'[d] # dns[d])
          => LET q == dns[d].msg[dns[d].qi] IN
             /\ dns'[d].qi = dns[d].qi + 1
             /\ dns'[d].m.rcode = dns[d].m.rcode
             /\ dns'[d].m.answer =
                   Append(dns[d].m.answer,
                          [hdr |-> [name |-> q.name, rrtype |-> "MX", class |-> "IN", ttl |-> 0],
                           mx |-> <<"m", "a", "i", "l", ".">> \o q.name,
                           preference |-> 10])]_vars

C23_Witness ==
    \E d \in DnsProcs :
        /\ dns[d].pc = "done"
        /\ dns[d].msg = <<[name |-> NameNone, qtype |-> "MX"], [name |-> NameLower, qtype |-> "MX"]>>
        /\ Len(dns[d].reply[1].answer) = 2
        /\ dns[d].reply[1].answer[1].mx = <<"m", "a", "i", "l", ".", "n", ".", "t", ".">>
        /\ dns[d].reply[1].answer[2].mx = <<"m", "a", "i", "l", ".", "a", ".", "t", ".">>
        /\ ~fileExists
        /\ DOMAIN txtRecords = {NameLower, NameNoDot}

(* C24. Entries of the record store are never removed. A lookup of a name  *)
(* that is the lowercased host of some publish finds a value; a key stays  *)
(* a key, and its value changes only in the step of line 141 of a publish  *)
(* for that same lowercased host, to the value of that publish; no step of *)
(* dnsHandler changes the store.                                           *)
C24_EntriesPersist ==
    /\ [](\A d \in DnsProcs :
             (dns[d].pc = "runlock" /\ dns[d].msg[dns[d].qi].name \in Published)
             => dns[d].present)
    /\ [][/\ DOMAIN txtRecords \subseteq DOMAIN txtRecords'
          /\ \A k \in DOMAIN txtRecords :
                txtRecords'[k] # txtRecords[k]
                => \E h \in HttpProcs :
                       /\ http[h].pc = "write"
                       /\ http'[h].pc = "log"
                       /\ ToLower(http[h].req[1].body.obj["host"]) = k
                       /\ txtRecords'[k] = http[h].req[1].body.obj["value"]
          /\ (\E d \in DnsProcs : dns'[d] # dns[d]) => txtRecords' = txtRecords]_vars

C24_Witness ==
    /\ DOMAIN txtRecords = {NameLower, NameNoDot}
    /\ pubLog = <<(<<NameNoDot, "v1">>), (<<NameLower, "v2">>)>>
    /\ \E d \in DnsProcs :
           /\ dns[d].pc = "runlock"
           /\ dns[d].msg[dns[d].qi].name = NameLower
           /\ dns[d].present
           /\ dns[d].value = "v2"

\* FAKE_DNS as the server sees it is the text of an address.
IsAddress(env) == ParseIP(env) # NilIP

(* C25. With FAKE_DNS an address: handling an A question, for any name,    *)
(* adds exactly one A record with that address and leaves hosts and        *)
(* hostsTime as they are; no handler ever enters lookupStaticIP, and the   *)
(* hosts cache stays as it was at the start.                               *)
C25_FixedAddress ==
    /\ [](IsAddress(envFakeDNS)
          => /\ hosts = NilMap
             /\ hostsTime = 0
             /\ \A d \in DnsProcs :
                    /\ dns[d].pc \notin {"stat", "check", "load", "sethosts", "settime", "ret"}
                    /\ dns[d].err = None)
    /\ [][\A d \in DnsProcs :
             (AtQuestion(d, "A") /\ IsAddress(envFakeDNS) /\ dns'[d] # dns[d])
             => LET q == dns[d].msg[dns[d].qi] IN
                /\ dns'[d].qi = dns[d].qi + 1
                /\ dns'[d].m.rcode = dns[d].m.rcode
                /\ dns'[d].m.answer =
                      Append(dns[d].m.answer,
                             [hdr |-> [name |-> q.name, rrtype |-> "A", class |-> "IN", ttl |-> 0],
                              a |-> envFakeDNS])
                /\ hosts' = hosts
                /\ hostsTime' = hostsTime]_vars

C25_Witness ==
    \E d \in DnsProcs :
        /\ envFakeDNS = IP9
        /\ ~fileExists
        /\ dns[d].pc = "done"
        /\ dns[d].msg = <<[name |-> NameNone, qtype |-> "A"], [name |-> NameLower, qtype |-> "A"]>>
        /\ Len(dns[d].reply[1].answer) = 2
        /\ dns[d].reply[1].answer[1].a = IP9
        /\ dns[d].reply[1].answer[2].a = IP9
        /\ dns[d].reply[1].rcode = Success

(* C26. A publish that has passed the checks of lines 117-138 changes      *)
(* nothing but the entry of its lowercased host: every step of it leaves   *)
(* the entries of all other keys, hosts and hostsTime as they are, and its *)
(* step of line 141 sets the entry of that key to the value published.     *)
C26_PublishFrame ==
    [][\A h \in HttpProcs :
          (http[h].pc \in {"lock", "write", "log", "respond", "unlock"} /\ http'[h] # http[h])
          => LET key == ToLower(http[h].req[1].body.obj["host"]) IN
             /\ hosts' = hosts
             /\ hostsTime' = hostsTime
             /\ DOMAIN txtRecords' \subseteq DOMAIN txtRecords \cup {key}
             /\ \A k \in DOMAIN txtRecords :
                    k # key => (k \in DOMAIN txtRecords' /\ txtRecords'[k] = txtRecords[k])
             /\ http[h].pc = "write"
                => (key \in DOMAIN txtRecords'
                    /\ txtRecords'[key] = http[h].req[1].body.obj["value"])
             /\ http[h].pc # "write" => txtRecords' = txtRecords]_vars

C26_Witness ==
    /\ hosts = SomeMap(readHosts(File1))
    /\ hostsTime = 1
    /\ DOMAIN txtRecords = {NameLower, NameNoDot}
    /\ txtRecords[NameLower] = "v2"
    /\ txtRecords[NameNoDot] = "v1"
    /\ http["h1"].pc = "done"
    /\ http["h1"].status = 200

(* C28. A refresh that fails changes nothing of the cache and takes        *)
(* nothing from it: a step of line 292 or line 298 that ends in an error   *)
(* or in "not exist" leaves hosts and hostsTime as they are, hands         *)
(* dnsHandler no table and no address, and adds no record to the answer.   *)
C28_FailedRefreshFrame ==
    [][\A d \in DnsProcs :
          (/\ dns[d].pc \in {"stat", "load"}
           /\ dns'[d] # dns[d]
           /\ dns'[d].pc \notin {"check", "sethosts"})
          => /\ hosts' = hosts
             /\ hostsTime' = hostsTime
             /\ dns'[d].hm = NilMap
             /\ dns'[d].ips = <<>>
             /\ dns'[d].m.answer = dns[d].m.answer
             /\ \/ dns'[d].pc = "panic"
                \/ (dns'[d].err = "EIO" /\ dns'[d].m.rcode = ServerFailure)]_vars

C28_Witness ==
    \E d \in DnsProcs :
        /\ hosts = SomeMap(readHosts(File1))
        /\ hostsTime = 1
        /\ ~fileExists
        /\ dns[d].pc = "panic"
        /\ dns[d].msg[dns[d].qi].name = NameLower
        /\ dns[d].m.answer = <<>>

(* C27. ts.mu is released on every path that takes it. A setTXT call      *)
(* waiting at line 139 gets the write lock in the end and gives it up in   *)
(* the end; a TXT lookup waiting at line 195 gets the read lock in the end *)
(* and gives it up in the end; a handler that has not yet asked for the    *)
(* lock, or that has gone past its unlock, or that has returned, does not  *)
(* hold it.                                                                *)
C27_LockReleased ==
    /\ \A h \in HttpProcs : (http[h].pc = "lock") ~> (mu.w = h)
    /\ \A h \in HttpProcs : (mu.w = h) ~> (mu.w # h)
    /\ \A d \in DnsProcs : (dns[d].pc = "rlock") ~> (d \in mu.r)
    /\ \A d \in DnsProcs : (d \in mu.r) ~> (d \notin mu.r)
    /\ [](\A h \in HttpProcs : http[h].pc \in {"idle", "lock", "done"} => mu.w # h)
    /\ [](\A d \in DnsProcs : dns[d].pc \in {"idle", "q", "rlock", "done"} => d \notin mu.r)

C27_Witness ==
    /\ http["h1"].pc = "done"
    /\ http["h1"].status = 200
    /\ http["h2"].pc = "unlock"
    /\ mu.w = "h2"
    /\ Len(pubLog) = 2
    /\ dns["d1"].pc = "rlock"
    /\ dns["d2"].pc = "rlock"
    /\ dns["d2"].msg[dns["d2"].qi].name = NameNone

====
